---- MODULE Spec2Model ----
(***************************************************************************)
(* Model of the tzdata (ZoneInfoDb) parser of src/src/lib.rs.              *)
(*                                                                         *)
(* A stream is a byte sequence `file` with a cursor `pos`.  Bytes are the  *)
(* integers 0..255.  Values of type u32, usize and u64 are kept at their   *)
(* real width as pairs <<hi, lo>> of value hi * 65536 + lo (lo < 65536),   *)
(* because the model checker's integers are narrower than u32.             *)
(***************************************************************************)
EXTENDS Integers, Sequences, FiniteSets, TLC

VARIABLES pc, input, file, pos, seeks, index_at, header, variant, stride, hres,
          ires, tz_name, found, dres, res, loc

vars == <<pc, input, file, pos, seeks, index_at, header, variant, stride, hres,
          ires, tz_name, found, dres, res, loc>>

----------------------------------------------------------------------------
(* Wide naturals: u32 / usize / u64 *)

Limb == 256 * 256

Hi(w) == w[1]
Lo(w) == w[2]
W(n) == <<n \div Limb, n % Limb>>
WZero == <<0, 0>>
WLess(a, b) == Hi(a) < Hi(b) \/ (Hi(a) = Hi(b) /\ Lo(a) < Lo(b))
WLeq(a, b) == a = b \/ WLess(a, b)

(* the bytes read in the opposite order *)
from_le_bytes(b) == <<b[4] * 256 + b[3], b[2] * 256 + b[1]>>

(* u32::from_be_bytes *)
from_be_bytes(b) == <<b[1] * 256 + b[2], b[3] * 256 + b[4]>>

(* u32::saturating_sub *)
saturating_sub(a, b) ==
    IF WLeq(a, b) THEN WZero
    ELSE IF Lo(a) >= Lo(b) THEN <<Hi(a) - Hi(b), Lo(a) - Lo(b)>>
         ELSE <<Hi(a) - Hi(b) - 1, Lo(a) + Limb - Lo(b)>>

(* the sum taken in u32, wrapping *)
add_u32_wrapping(a, b) ==
    <<(Hi(a) + Hi(b) + ((Lo(a) + Lo(b)) \div Limb)) % Limb, (Lo(a) + Lo(b)) % Limb>>

(* a as u64 + b as u64: the sum of two u32 values never wraps in u64 *)
add_u64(a, b) ==
    <<Hi(a) + Hi(b) + ((Lo(a) + Lo(b)) \div Limb), (Lo(a) + Lo(b)) % Limb>>

----------------------------------------------------------------------------
(* Results *)

NoHeader == [version |-> <<>>, index_offset |-> WZero, data_offset |-> WZero,
             zonetab_offset |-> WZero]
NoEntry == [some |-> FALSE, name |-> <<>>, offset |-> WZero, length |-> WZero]
NoRes == [tag |-> "None", kind |-> "", val |-> <<>>]

Ok(v) == [tag |-> "Ok", kind |-> "", val |-> v]
OkSome(v) == [tag |-> "Ok", kind |-> "Some", val |-> v]
OkNone == [tag |-> "Ok", kind |-> "None", val |-> <<>>]
Err(k) == [tag |-> "Err", kind |-> k, val |-> <<>>]
Panic == [tag |-> "Panic", kind |-> "", val |-> <<>>]

----------------------------------------------------------------------------
(* Read::read_exact on a stream of `f` bytes with cursor p, for n bytes.    *)
(* On a short stream the bytes that exist are consumed and the call fails.  *)

Avail(f, p) == IF Hi(p) = 0 /\ Lo(p) <= Len(f) THEN Len(f) - Lo(p) ELSE 0

read_exact(f, p, n) ==
    IF n = WZero THEN [ok |-> TRUE, buf |-> <<>>, pos |-> p]
    ELSE IF Hi(n) = 0 /\ Lo(n) <= Avail(f, p)
    THEN [ok |-> TRUE, buf |-> SubSeq(f, Lo(p) + 1, Lo(p) + Lo(n)),
          pos |-> <<0, Lo(p) + Lo(n)>>]
    ELSE [ok |-> FALSE, buf |-> <<>>,
          pos |-> IF Avail(f, p) > 0 THEN <<0, Len(f)>> ELSE p]

----------------------------------------------------------------------------
(* TzDataHeader::new *)

TZDATA_VERSION_SIZE == 12
TZDATA_MAGIC_HEADER == <<116, 122, 100, 97, 116, 97>>

TzDataHeader_new(f, p) ==
    LET m == read_exact(f, p, W(TZDATA_VERSION_SIZE)) IN
    IF ~m.ok THEN [r |-> Err("UnexpectedEof"), pos |-> m.pos]
    ELSE IF SubSeq(m.buf, 1, Len(TZDATA_MAGIC_HEADER)) # TZDATA_MAGIC_HEADER
            \/ m.buf[TZDATA_VERSION_SIZE] # 0
    THEN [r |-> Err("Other"), pos |-> m.pos]
    ELSE
    LET version == SubSeq(m.buf, 7, 11)
        o1 == read_exact(f, m.pos, W(4)) IN
    IF ~o1.ok THEN [r |-> Err("UnexpectedEof"), pos |-> o1.pos]
    ELSE
    LET o2 == read_exact(f, o1.pos, W(4)) IN
    IF ~o2.ok THEN [r |-> Err("UnexpectedEof"), pos |-> o2.pos]
    ELSE
    LET o3 == read_exact(f, o2.pos, W(4)) IN
    IF ~o3.ok THEN [r |-> Err("UnexpectedEof"), pos |-> o3.pos]
    ELSE [r |-> Ok([version |-> version,
                    index_offset |-> from_be_bytes(o1.buf),
                    data_offset |-> from_be_bytes(o2.buf),
                    zonetab_offset |-> from_be_bytes(o3.buf)]),
          pos |-> o3.pos]

----------------------------------------------------------------------------
(* Inputs: the bytes of a tzdata header as the file format lays them out.   *)

to_be_bytes(w) == <<Hi(w) \div 256, Hi(w) % 256, Lo(w) \div 256, Lo(w) % 256>>

Version2024a == <<50, 48, 50, 52, 97>>
Version2021a == <<50, 48, 50, 49, 97>>

MagicOf(kind) ==
    CASE kind = "good" -> TZDATA_MAGIC_HEADER
      [] kind = "bad_first" -> <<84, 122, 100, 97, 116, 97>>
      [] kind = "bad_last" -> <<116, 122, 100, 97, 116, 98>>
      [] OTHER -> TZDATA_MAGIC_HEADER

TermOf(kind) == IF kind = "no_nul" THEN 49 ELSE 0

HeaderBytes(kind, ver, io, do, zo) ==
    MagicOf(kind) \o ver \o <<TermOf(kind)>>
        \o to_be_bytes(io) \o to_be_bytes(do) \o to_be_bytes(zo)

MagicKinds == {"good", "bad_first", "bad_last", "no_nul"}
Versions == {Version2024a, Version2021a}
IndexOffsets == {W(24), <<65535, 65535>>}
DataOffsets == {W(21240), <<258, 772>>}
ZonetabOffsets == {<<4, 10284>>, WZero}
(* number of bytes the stream supplies from its cursor *)
Supplied == {0, 6, 11, 12, 16, 23, 24, 25}
(* bytes in front of the cursor *)
Skipped == {0, 1}

InitHeader ==
    /\ \E k \in MagicKinds, v \in Versions, io \in IndexOffsets,
          do \in DataOffsets, zo \in ZonetabOffsets, n \in Supplied,
          s \in Skipped :
          /\ input = [kind |-> k, version |-> v, index_offset |-> io,
                      data_offset |-> do, zonetab_offset |-> zo,
                      supplied |-> n, skipped |-> s]
          /\ file = SubSeq(<<255>>, 1, s)
                      \o SubSeq(HeaderBytes(k, v, io, do, zo) \o <<255>>, 1, n)
          /\ pos = W(s)
    /\ pc = "start"
    /\ header = NoHeader
    /\ seeks = <<>>
    /\ index_at = WZero
    /\ variant = "none"
    /\ stride = 0
    /\ hres = NoRes
    /\ ires = NoRes
    /\ tz_name = <<>>
    /\ found = NoEntry
    /\ dres = NoRes
    /\ res = NoRes
    /\ loc = 0

(* let header = TzDataHeader::new(&file) *)
HeaderNew ==
    /\ pc = "start"
    /\ LET h == TzDataHeader_new(file, pos) IN
       /\ hres' = h.r
       /\ pos' = h.pos
       /\ header' = IF h.r.tag = "Ok" THEN h.r.val ELSE header
    /\ pc' = "header_done"
    /\ UNCHANGED <<input, file, seeks, index_at, variant, stride, ires, tz_name, found, dres, res, loc>>

NextHeader == HeaderNew

SpecHeader == InitHeader /\ [][NextHeader]_vars

----------------------------------------------------------------------------
(* C4: TzDataHeader::new returns a header exactly when the stream supplies   *)
(* at least 24 bytes from its cursor, the first 6 are "tzdata" and byte 11   *)
(* is 0; then version is bytes 6..11 and the three offsets are the           *)
(* big-endian u32 values at 12, 16 and 20.  Every other case is an error     *)
(* value, never a panic.                                                     *)
HeaderWellFormed ==
    /\ Len(file) - input.skipped >= 24
    /\ \A i \in 1..6 : file[input.skipped + i] = TZDATA_MAGIC_HEADER[i]
    /\ file[input.skipped + 12] = 0

C4_HeaderDecode ==
    pc = "header_done" =>
        /\ hres.tag \in {"Ok", "Err"}
        /\ hres.tag = "Ok" <=> HeaderWellFormed
        /\ hres.tag = "Ok" =>
              /\ hres.val.version = input.version
              /\ hres.val.version = SubSeq(file, input.skipped + 7, input.skipped + 11)
              /\ hres.val.index_offset = input.index_offset
              /\ hres.val.data_offset = input.data_offset
              /\ hres.val.zonetab_offset = input.zonetab_offset

C4_Witness ==
    /\ pc = "header_done"
    /\ hres.tag = "Ok"
    /\ hres.val.version = Version2024a
    /\ hres.val.index_offset = W(24)
    /\ hres.val.data_offset = W(21240)
    /\ hres.val.zonetab_offset = <<4, 10284>>

----------------------------------------------------------------------------
(* TzDataIndexes::new and its two instances.  Allocating the region buffer   *)
(* (vec![0; n]) is taken to succeed for every n; a region longer than the    *)
(* stream then fails in read_exact.                                          *)

SIZEOF_U32 == 4
SIZEOF_TZNAME == 40
SIZEOF_INDEX_ENTRY_OHOS == SIZEOF_TZNAME + 2 * SIZEOF_U32
(* the android entry sized without its legacy field *)
SIZEOF_INDEX_ENTRY_ANDROID_NoLegacy == SIZEOF_TZNAME + 2 * SIZEOF_U32
SIZEOF_INDEX_ENTRY_ANDROID == SIZEOF_TZNAME + 3 * SIZEOF_U32

Min(a, b) == IF a < b THEN a ELSE b

(* slice::chunks: consecutive chunks of n bytes, the last one may be shorter *)
chunks(buf, n) ==
    [i \in 1..((Len(buf) + n - 1) \div n) |->
        SubSeq(buf, (i - 1) * n + 1, Min(i * n, Len(buf)))]

(* &s[a..b]: panics when b exceeds the length of s *)
slice(s, a, b) ==
    IF b <= Len(s) THEN [ok |-> TRUE, v |-> SubSeq(s, a + 1, b)]
    ELSE [ok |-> FALSE, v |-> <<>>]

(* CStr::from_bytes_until_nul: the bytes before the first NUL, or an error *)
from_bytes_until_nul(s) ==
    IF \E i \in 1..Len(s) : s[i] = 0
    THEN LET k == CHOOSE i \in 1..Len(s) :
                     s[i] = 0 /\ \A j \in 1..(i - 1) : s[j] # 0
         IN [ok |-> TRUE, bytes |-> SubSeq(s, 1, k - 1)]
    ELSE [ok |-> FALSE, bytes |-> <<>>]

(* the closure reading offset and length one field too far *)
parse_chunk_Shifted(chunk) ==
    LET nm == slice(chunk, 0, SIZEOF_TZNAME) IN
    IF ~nm.ok THEN [panic |-> TRUE, some |-> FALSE, entry |-> NoEntry]
    ELSE
    LET name == from_bytes_until_nul(nm.v) IN
    IF ~name.ok THEN [panic |-> FALSE, some |-> FALSE, entry |-> NoEntry]
    ELSE
    LET off == slice(chunk, SIZEOF_TZNAME + 4, SIZEOF_TZNAME + 8) IN
    IF ~off.ok THEN [panic |-> TRUE, some |-> FALSE, entry |-> NoEntry]
    ELSE
    LET len == slice(chunk, SIZEOF_TZNAME + 8, SIZEOF_TZNAME + 12) IN
    IF ~len.ok THEN [panic |-> TRUE, some |-> FALSE, entry |-> NoEntry]
    ELSE [panic |-> FALSE, some |-> TRUE,
          entry |-> [some |-> TRUE, name |-> name.bytes,
                     offset |-> from_be_bytes(off.v),
                     length |-> from_be_bytes(len.v)]]

(* the closure given to filter_map *)
parse_chunk(chunk) ==
    LET nm == slice(chunk, 0, SIZEOF_TZNAME) IN
    IF ~nm.ok THEN [panic |-> TRUE, some |-> FALSE, entry |-> NoEntry]
    ELSE
    LET name == from_bytes_until_nul(nm.v) IN
    IF ~name.ok THEN [panic |-> FALSE, some |-> FALSE, entry |-> NoEntry]
    ELSE
    LET off == slice(chunk, SIZEOF_TZNAME, SIZEOF_TZNAME + 4) IN
    IF ~off.ok THEN [panic |-> TRUE, some |-> FALSE, entry |-> NoEntry]
    ELSE
    LET len == slice(chunk, SIZEOF_TZNAME + 4, SIZEOF_TZNAME + 8) IN
    IF ~len.ok THEN [panic |-> TRUE, some |-> FALSE, entry |-> NoEntry]
    ELSE [panic |-> FALSE, some |-> TRUE,
          entry |-> [some |-> TRUE, name |-> name.bytes,
                     offset |-> from_be_bytes(off.v),
                     length |-> from_be_bytes(len.v)]]

RECURSIVE filter_map(_, _)
filter_map(cs, i) ==
    IF i > Len(cs) THEN <<>>
    ELSE (IF parse_chunk(cs[i]).some THEN <<parse_chunk(cs[i]).entry>> ELSE <<>>)
            \o filter_map(cs, i + 1)

TzDataIndexes_new(SIZEOF_INDEX_ENTRY, f, p, h) ==
    LET n == saturating_sub(h.data_offset, h.index_offset)
        b == read_exact(f, p, n) IN
    IF ~b.ok THEN [r |-> Err("UnexpectedEof"), pos |-> b.pos]
    ELSE
    LET cs == chunks(b.buf, SIZEOF_INDEX_ENTRY) IN
    IF \E i \in 1..Len(cs) : parse_chunk(cs[i]).panic
    THEN [r |-> Panic, pos |-> b.pos]
    ELSE [r |-> Ok(filter_map(cs, 1)), pos |-> b.pos]

new_android(f, p, h) == TzDataIndexes_new(SIZEOF_INDEX_ENTRY_ANDROID, f, p, h)
new_ohos(f, p, h) == TzDataIndexes_new(SIZEOF_INDEX_ENTRY_OHOS, f, p, h)

(* TzDataIndexes::timezones *)
timezones(indexes) == indexes

----------------------------------------------------------------------------
(* TzDataIndexes::find_timezone: slice::binary_search_by_key over the names, *)
(* compared as byte slices (lexicographic order).  The search is the         *)
(* standard library's: halve the range until one element is left, keeping    *)
(* base on Greater and moving it to mid otherwise, then compare once more.   *)
(* Which of several equal names it returns is not specified by the library.  *)

(* names ordered by length before content *)
cmp_LengthFirst(a, b) ==
    IF Len(a) < Len(b) THEN "Less"
    ELSE IF Len(a) > Len(b) THEN "Greater"
    ELSE IF \E i \in 1..Len(a) : a[i] # b[i]
    THEN LET d == CHOOSE i \in 1..Len(a) : a[i] # b[i] /\ \A j \in 1..(i - 1) : a[j] = b[j]
         IN IF a[d] < b[d] THEN "Less" ELSE "Greater"
    ELSE "Equal"

cmp(a, b) ==
    LET n == Min(Len(a), Len(b)) IN
    IF \E i \in 1..n : a[i] # b[i]
    THEN LET d == CHOOSE i \in 1..n : a[i] # b[i] /\ \A j \in 1..(i - 1) : a[j] = b[j]
         IN IF a[d] < b[d] THEN "Less" ELSE "Greater"
    ELSE IF Len(a) < Len(b) THEN "Less"
    ELSE IF Len(a) > Len(b) THEN "Greater"
    ELSE "Equal"

(* the loop moving base only on Less, so that an equal element is passed by *)
RECURSIVE search_loop_SkipEqual(_, _, _, _)
search_loop_SkipEqual(indexes, key, base, size) ==
    IF size > 1
    THEN LET half == size \div 2
             mid == base + half
         IN search_loop_SkipEqual(indexes, key,
                        IF cmp(indexes[mid + 1].name, key) = "Less" THEN mid ELSE base,
                        size - half)
    ELSE base

(* the loop of binary_search_by; base is a 0-based index *)
RECURSIVE search_loop(_, _, _, _)
search_loop(indexes, key, base, size) ==
    IF size > 1
    THEN LET half == size \div 2
             mid == base + half
         IN search_loop(indexes, key,
                        IF cmp(indexes[mid + 1].name, key) = "Greater" THEN base ELSE mid,
                        size - half)
    ELSE base

binary_search_by_key(indexes, key) ==
    IF Len(indexes) = 0 THEN [ok |-> FALSE, at |-> 0]
    ELSE LET base == search_loop(indexes, key, 0, Len(indexes))
             c == cmp(indexes[base + 1].name, key)
         IN IF c = "Equal" THEN [ok |-> TRUE, at |-> base]
            ELSE [ok |-> FALSE, at |-> base + (IF c = "Less" THEN 1 ELSE 0)]

find_timezone(indexes, timezone) ==
    LET r == binary_search_by_key(indexes, timezone) IN
    IF r.ok THEN indexes[r.at + 1] ELSE NoEntry

----------------------------------------------------------------------------
(* Inputs: index regions laid out as the file format lays them out.  A       *)
(* record is described by its name, the way the 40-byte name field is        *)
(* filled after the name, and its three u32 fields; the legacy field exists  *)
(* on disk in the android layout only.                                       *)

MaxRecords == 3

Fill(b, n) == [i \in 1..n |-> b]

NameField(d) ==
    CASE d.pad = "zero" -> d.name \o Fill(0, SIZEOF_TZNAME - Len(d.name))
      [] d.pad = "junk" -> d.name \o <<0, 90>> \o Fill(0, SIZEOF_TZNAME - Len(d.name) - 2)
      [] OTHER -> d.name \o Fill(88, SIZEOF_TZNAME - Len(d.name))

EncodeRecord(d, fmt) ==
    NameField(d) \o to_be_bytes(d.offset) \o to_be_bytes(d.length)
        \o (IF fmt = "android" THEN to_be_bytes(d.legacy) ELSE <<>>)

RECURSIVE EncodeRecords(_, _)
EncodeRecords(ds, fmt) ==
    IF ds = <<>> THEN <<>>
    ELSE EncodeRecord(Head(ds), fmt) \o EncodeRecords(Tail(ds), fmt)

StrideOf(fmt) == IF fmt = "android" THEN 52 ELSE 48

NameA == <<65>>
NameAA == <<65, 65>>
NameAB == <<65, 66>>
NameB == <<66>>
NameC == <<67>>

RecordKinds ==
    { [name |-> NameA, pad |-> "zero", offset |-> WZero, length |-> W(3),
       legacy |-> W(7)],
      [name |-> NameA, pad |-> "junk", offset |-> <<258, 772>>, length |-> W(5),
       legacy |-> <<65535, 65535>>],
      [name |-> NameAB, pad |-> "zero", offset |-> W(3), length |-> <<1, 0>>,
       legacy |-> WZero],
      [name |-> NameB, pad |-> "zero", offset |-> W(1), length |-> W(2),
       legacy |-> W(1)],
      [name |-> NameAB, pad |-> "nonul", offset |-> W(9), length |-> W(4),
       legacy |-> W(2)],
      [name |-> <<>>, pad |-> "zero", offset |-> <<65535, 65535>>,
       length |-> WZero, legacy |-> W(3)] }

RecordSeqs == UNION { [1..n -> RecordKinds] : n \in 0..MaxRecords }

(* the trailing partial record: how its name field is filled, and its length *)
RuntShapes ==
    { <<"zero", 0>>, <<"zero", 39>>, <<"zero", 40>>, <<"nonul", 40>>,
      <<"zero", 44>>, <<"zero", 47>>, <<"zero", 48>>, <<"nonul", 51>> }

RuntRecord(padding) ==
    [name |-> NameC, pad |-> padding, offset |-> W(6), length |-> W(1),
     legacy |-> W(5)]

RuntBytes(shape, fmt) == SubSeq(EncodeRecord(RuntRecord(shape[1]), fmt), 1, shape[2])

(* how the header's offsets relate to the bytes the stream holds *)
RegionKinds == {"exact", "short", "swapped"}

Queries == {<<>>, NameA, NameAA, NameAB, NameB, NameC}

InitIndex ==
    /\ \E fmt \in {"android", "ohos"}, ds \in RecordSeqs, rt \in RuntShapes,
          rk \in RegionKinds :
          /\ rt[2] < StrideOf(fmt)
          /\ rk # "exact" => rt[2] = 0
          /\ LET buf == EncodeRecords(ds, fmt) \o RuntBytes(rt, fmt)
                 io == IF rk = "swapped" THEN W(24 + Len(buf) + 1) ELSE W(24)
                 do == IF rk = "short" THEN W(24 + Len(buf) + 1)
                       ELSE W(24 + Len(buf))
             IN /\ input = [fmt |-> fmt, recs |-> ds, runt |-> rt, region |-> rk,
                            buf |-> buf]
                /\ file = HeaderBytes("good", Version2024a, io, do, do) \o buf
                /\ header = [version |-> Version2024a, index_offset |-> io,
                             data_offset |-> do, zonetab_offset |-> do]
    /\ pos = W(24)
    /\ pc = "header_done"
    /\ seeks = <<>>
    /\ index_at = WZero
    /\ variant = "none"
    /\ stride = 0
    /\ hres = NoRes
    /\ ires = NoRes
    /\ tz_name = <<>>
    /\ found = NoEntry
    /\ dres = NoRes
    /\ res = NoRes
    /\ loc = 0

(* let indexes = TzDataIndexes::new_android(&file, &header) *)
NewAndroid ==
    /\ pc = "header_done"
    /\ LET x == new_android(file, pos, header) IN
       /\ ires' = x.r
       /\ pos' = x.pos
    /\ variant' = "android"
    /\ stride' = SIZEOF_INDEX_ENTRY_ANDROID
    /\ pc' = "decoded"
    /\ index_at' = pos
    /\ UNCHANGED <<input, file, seeks, header, hres, tz_name, found, dres, res, loc>>

(* let indexes = TzDataIndexes::new_ohos(&file, &header) *)
NewOhos ==
    /\ pc = "header_done"
    /\ LET x == new_ohos(file, pos, header) IN
       /\ ires' = x.r
       /\ pos' = x.pos
    /\ variant' = "ohos"
    /\ stride' = SIZEOF_INDEX_ENTRY_OHOS
    /\ pc' = "decoded"
    /\ index_at' = pos
    /\ UNCHANGED <<input, file, seeks, header, hres, tz_name, found, dres, res, loc>>

(* let timezone = indexes.find_timezone(q) *)
FindTimezone ==
    /\ pc \in {"decoded", "looked_up"}
    /\ ires.tag = "Ok"
    /\ \E q \in Queries :
          /\ tz_name' = q
          /\ found' = find_timezone(ires.val, q)
    /\ pc' = "looked_up"
    /\ UNCHANGED <<input, file, pos, seeks, index_at, header, variant, stride,
                   hres, ires, dres, res, loc>>

NextIndex == NewAndroid \/ NewOhos \/ FindTimezone

SpecIndex == InitIndex /\ [][NextIndex]_vars

----------------------------------------------------------------------------
(* What the file format says a sequence of on-disk records holds. *)

EntryOf(d) == [some |-> TRUE, name |-> d.name, offset |-> d.offset,
               length |-> d.length]

RECURSIVE EntriesOf(_)
EntriesOf(ds) ==
    IF ds = <<>> THEN <<>>
    ELSE (IF Head(ds).pad = "nonul" THEN <<>> ELSE <<EntryOf(Head(ds))>>)
            \o EntriesOf(Tail(ds))

Decoded == pc \in {"decoded", "looked_up"}

(* the constructor called is the one for the layout the region was written in *)
Matching == variant = input.fmt

(* byte-wise order of names *)
ByteLess(a, b) ==
    \E k \in 1..(Len(b)) :
        /\ \A j \in 1..(k - 1) : j <= Len(a) /\ a[j] = b[j]
        /\ (k > Len(a) \/ a[k] < b[k])

StrictlySorted(t) == \A i \in 1..(Len(t) - 1) : ByteLess(t[i].name, t[i + 1].name)

(* C1: when the region length is not a multiple of the record stride, the    *)
(* decoder does not panic, drops the runt tail and produces exactly the      *)
(* entries of the full-stride records before it.                             *)
C1_RuntDropped ==
    (Decoded /\ Matching /\ input.region = "exact" /\ input.runt[2] > 0) =>
        ires = Ok(EntriesOf(input.recs))

(* C2 as stated: for every decoded table, whatever its bytes, looking up the *)
(* name of an entry returns that entry.                                      *)
C2_RoundTripAnyTable ==
    (pc = "looked_up") =>
        \A i \in 1..Len(ires.val) :
            ires.val[i].name = tz_name => found = ires.val[i]

(* C2 amended: for every decoded table whose names are distinct and in       *)
(* strictly ascending byte-wise order, looking up the name of an entry       *)
(* returns that entry (same name, offset and length).                        *)
C2_RoundTripSorted ==
    (pc = "looked_up" /\ StrictlySorted(ires.val)) =>
        \A i \in 1..Len(ires.val) :
            ires.val[i].name = tz_name => found = ires.val[i]

C2_Witness ==
    /\ pc = "looked_up"
    /\ Len(ires.val) = 3
    /\ StrictlySorted(ires.val)
    /\ tz_name = NameB
    /\ found = ires.val[3]
    /\ found.length = W(2)

(* C3 as stated: the record stride is 48 bytes for the legacy (android)      *)
(* variant and 44 bytes for the modern (ohos) variant.                       *)
C3_Stride48And44 ==
    Decoded => stride = (IF variant = "android" THEN 48 ELSE 44)

(* C3 amended: the record stride is 52 bytes for the legacy (android)        *)
(* variant and 48 bytes for the modern (ohos) variant, so a region of full   *)
(* records written in a layout is split by that layout's constructor into    *)
(* one chunk per record.                                                     *)
C3_Stride52And48 ==
    Decoded =>
        /\ stride = (IF variant = "android" THEN 52 ELSE 48)
        /\ (Matching /\ input.region = "exact") =>
              Len(chunks(input.buf, stride))
                  = Len(input.recs) + (IF input.runt[2] > 0 THEN 1 ELSE 0)
        /\ (Matching /\ input.region = "exact" /\ input.runt[2] = 0
                /\ \A i \in 1..Len(input.recs) : input.recs[i].pad # "nonul") =>
              (ires.tag = "Ok" /\ Len(ires.val) = Len(input.recs))

C3_Witness ==
    /\ pc = "decoded"
    /\ variant = "android"
    /\ Matching
    /\ input.region = "exact" /\ input.runt[2] = 0
    /\ Len(input.recs) = 3
    /\ ires.tag = "Ok" /\ Len(ires.val) = 3

(* C5: in a table whose names are distinct and strictly ascending,           *)
(* find_timezone(q) returns the entry named q when there is one and          *)
(* not-found for every q that names no entry.                                *)
C5_BinarySearch ==
    (pc = "looked_up" /\ StrictlySorted(ires.val)) =>
        /\ (\E i \in 1..Len(ires.val) : ires.val[i].name = tz_name) =>
              (found.some /\ found.name = tz_name
                  /\ \E i \in 1..Len(ires.val) : ires.val[i] = found)
        /\ (\A i \in 1..Len(ires.val) : ires.val[i].name # tz_name) =>
              found = NoEntry

C5_Witness ==
    /\ pc = "looked_up"
    /\ Len(ires.val) = 3
    /\ StrictlySorted(ires.val)
    /\ ires.val[1].name = NameA
    /\ ires.val[2].name = NameAB
    /\ tz_name = NameAA
    /\ found = NoEntry

(* C9: a region of full-stride records decodes to the records that have a    *)
(* NUL in their name field, in on-disk order, each with the name before the  *)
(* first NUL and the big-endian offset and length that follow the name       *)
(* field; a record without NUL gives no entry and no error, and the legacy   *)
(* field has no influence.                                                   *)
C9_FullRecords ==
    (Decoded /\ Matching /\ input.runt[2] = 0 /\ input.region # "short") =>
        ires = Ok(IF input.region = "swapped" THEN <<>>
                  ELSE EntriesOf(input.recs))

C9_Witness ==
    /\ pc = "decoded"
    /\ Matching
    /\ input.region = "exact" /\ input.runt[2] = 0
    /\ Len(input.recs) = 3
    /\ input.recs[1].pad = "junk"
    /\ input.recs[2].pad = "nonul"
    /\ ires.tag = "Ok"
    /\ Len(ires.val) = 2
    /\ ires.val[1].offset = <<258, 772>>

----------------------------------------------------------------------------
(* TzDataIndexes::find_tzdata: seek to data_offset + offset, read length     *)
(* bytes.  A seek past the end of the stream succeeds; the read then fails.  *)

find_tzdata(f, h, index) ==
    LET target == add_u64(index.offset, h.data_offset)
        b == read_exact(f, target, index.length) IN
    IF ~b.ok THEN [r |-> Err("UnexpectedEof"), pos |-> b.pos, seek |-> target]
    ELSE [r |-> Ok(b.buf), pos |-> b.pos, seek |-> target]

MaxFileLen == 5

PayloadBytes(n) == [i \in 1..n |-> 200 + i]

DataOffsetsD == {WZero, W(2), <<32768, 0>>, <<65535, 65535>>}
EntryOffsets == {WZero, W(1), W(3), <<32768, 0>>, <<65535, 65535>>}
EntryLengths == {WZero, W(1), W(2), W(4), <<1, 0>>, <<65535, 65535>>}

InitData ==
    /\ \E n \in 0..MaxFileLen, do \in DataOffsetsD, off \in EntryOffsets,
          len \in EntryLengths, p \in {0, 1} :
          /\ p <= n
          /\ file = PayloadBytes(n)
          /\ pos = W(p)
          /\ header = [version |-> Version2021a, index_offset |-> WZero,
                       data_offset |-> do, zonetab_offset |-> W(n)]
          /\ found = [some |-> TRUE, name |-> NameA, offset |-> off,
                      length |-> len]
          /\ input = [data_offset |-> do, offset |-> off, length |-> len]
    /\ pc = "looked_up"
    /\ seeks = <<>>
    /\ index_at = WZero
    /\ variant = "none"
    /\ stride = 0
    /\ hres = NoRes
    /\ ires = NoRes
    /\ tz_name = NameA
    /\ dres = NoRes
    /\ res = NoRes
    /\ loc = 0

(* let tzdata = indexes.find_tzdata(&file, &header, timezone) *)
FindTzdata ==
    /\ pc = "looked_up"
    /\ found.some
    /\ LET d == find_tzdata(file, header, found) IN
       /\ dres' = d.r
       /\ pos' = d.pos
       /\ seeks' = Append(seeks, d.seek)
    /\ pc' = "extracted"
    /\ UNCHANGED <<input, file, index_at, header, variant, stride, hres, ires,
                   tz_name, found, res, loc>>

NextData == FindTzdata

SpecData == InitData /\ [][NextData]_vars

(* C6: find_tzdata seeks to data_offset + offset, computed without 32-bit    *)
(* wrap-around, and returns exactly the length bytes found there; with fewer *)
(* bytes available from there it returns an IO error, never a shorter        *)
(* buffer; a returned buffer has length entry.length.                        *)
SmallSum ==
    Hi(input.data_offset) = 0 /\ Hi(input.offset) = 0 /\ Hi(input.length) = 0

C6_SeekAndRead ==
    pc = "extracted" =>
        /\ Len(seeks) = 1
        /\ Lo(seeks[1]) \in 0..(Limb - 1)
        /\ LET carry == Hi(seeks[1]) - Hi(input.data_offset) - Hi(input.offset)
           IN /\ carry \in {0, 1}
              /\ carry * Limb + Lo(seeks[1])
                    = Lo(input.data_offset) + Lo(input.offset)
        /\ IF input.length = WZero
              \/ (SmallSum /\ Lo(input.data_offset) + Lo(input.offset)
                                + Lo(input.length) <= Len(file))
           THEN /\ dres.tag = "Ok"
                /\ Len(dres.val) = Lo(input.length)
                /\ \A i \in 1..Len(dres.val) :
                      dres.val[i] = file[Lo(input.data_offset) + Lo(input.offset) + i]
           ELSE dres = Err("UnexpectedEof")

C6_Witness ==
    /\ pc = "extracted"
    /\ input.data_offset = W(2) /\ input.offset = W(1) /\ input.length = W(2)
    /\ dres = Ok(<<204, 205>>)

----------------------------------------------------------------------------
(* find_tz_data_android / find_tz_data_ohos: header decode, index decode,    *)
(* lookup, extraction on one stream.  Besides the returned value the result  *)
(* carries the locals of the call and the stream's cursor and seeks.         *)

Outcome(r, p, sk, at, h, x, e) ==
    [r |-> r, pos |-> p, seeks |-> sk, index_at |-> at, hres |-> h,
     ires |-> x, found |-> e]

(* the composed lookup reporting an absent name as an IO error *)
find_tz_data_android_AbsentIsErr(f, p, name) ==
    LET h == TzDataHeader_new(f, p) IN
    IF h.r.tag # "Ok"
    THEN Outcome(h.r, h.pos, <<>>, WZero, h.r, NoRes, NoEntry)
    ELSE
    LET index == new_android(f, h.pos, h.r.val) IN
    IF index.r.tag # "Ok"
    THEN Outcome(index.r, index.pos, <<>>, h.pos, h.r, index.r, NoEntry)
    ELSE
    LET entry == find_timezone(index.r.val, name) IN
    IF ~entry.some
    THEN Outcome(Err("NotFound"), index.pos, <<>>, h.pos, h.r, index.r, entry)
    ELSE
    LET d == find_tzdata(f, h.r.val, entry) IN
    Outcome(IF d.r.tag = "Ok" THEN OkSome(d.r.val) ELSE d.r,
            d.pos, <<d.seek>>, h.pos, h.r, index.r, entry)

find_tz_data_android(f, p, name) ==
    LET h == TzDataHeader_new(f, p) IN
    IF h.r.tag # "Ok"
    THEN Outcome(h.r, h.pos, <<>>, WZero, h.r, NoRes, NoEntry)
    ELSE
    LET index == new_android(f, h.pos, h.r.val) IN
    IF index.r.tag # "Ok"
    THEN Outcome(index.r, index.pos, <<>>, h.pos, h.r, index.r, NoEntry)
    ELSE
    LET entry == find_timezone(index.r.val, name) IN
    IF ~entry.some
    THEN Outcome(OkNone, index.pos, <<>>, h.pos, h.r, index.r, entry)
    ELSE
    LET d == find_tzdata(f, h.r.val, entry) IN
    Outcome(IF d.r.tag = "Ok" THEN OkSome(d.r.val) ELSE d.r,
            d.pos, <<d.seek>>, h.pos, h.r, index.r, entry)

find_tz_data_ohos(f, p, name) ==
    LET h == TzDataHeader_new(f, p) IN
    IF h.r.tag # "Ok"
    THEN Outcome(h.r, h.pos, <<>>, WZero, h.r, NoRes, NoEntry)
    ELSE
    LET index == new_ohos(f, h.pos, h.r.val) IN
    IF index.r.tag # "Ok"
    THEN Outcome(index.r, index.pos, <<>>, h.pos, h.r, index.r, NoEntry)
    ELSE
    LET entry == find_timezone(index.r.val, name) IN
    IF ~entry.some
    THEN Outcome(OkNone, index.pos, <<>>, h.pos, h.r, index.r, entry)
    ELSE
    LET d == find_tzdata(f, h.r.val, entry) IN
    Outcome(IF d.r.tag = "Ok" THEN OkSome(d.r.val) ELSE d.r,
            d.pos, <<d.seek>>, h.pos, h.r, index.r, entry)

(* Inputs: whole files: header, NumBlocks records, payload *)

NumBlocks == 2
PayloadLen == 4

BlockSeqs == [1..NumBlocks -> RecordKinds]

(* where the header says the index region lies *)
RegionShapes == {"none", "one", "all", "swapped", "beyond"}

RegionEnd(io, s, shape) ==
    CASE shape = "none" -> io
      [] shape = "one" -> io + s
      [] shape = "all" -> io + NumBlocks * s
      [] shape = "swapped" -> io - 1
      [] OTHER -> io + NumBlocks * s + PayloadLen + 1

InitCompose ==
    /\ \E fmt \in {"android", "ohos"}, ds \in BlockSeqs, first \in {0, 1},
          shape \in RegionShapes, k \in {"good", "bad_last", "cut"},
          q \in Queries :
          /\ k # "good" => (shape = "one" /\ first = 0 /\ q = NameA)
          /\ LET s == StrideOf(fmt)
                 io == 24 + first * s
                 do == RegionEnd(io, s, shape)
                 whole == HeaderBytes(k, Version2021a, W(io), W(do),
                                      W(24 + NumBlocks * s + PayloadLen))
                             \o EncodeRecords(ds, fmt) \o PayloadBytes(PayloadLen)
             IN /\ input = [fmt |-> fmt, recs |-> ds, kind |-> k,
                            index_offset |-> io, data_offset |-> do]
                /\ file = IF k = "cut" THEN SubSeq(whole, 1, 16) ELSE whole
          /\ tz_name = q
    /\ pos = WZero
    /\ pc = "start"
    /\ seeks = <<>>
    /\ index_at = WZero
    /\ header = NoHeader
    /\ variant = "none"
    /\ stride = 0
    /\ hres = NoRes
    /\ ires = NoRes
    /\ found = NoEntry
    /\ dres = NoRes
    /\ res = NoRes
    /\ loc = 0

Returned(o) ==
    /\ res' = o.r
    /\ pos' = o.pos
    /\ seeks' = seeks \o o.seeks
    /\ index_at' = o.index_at
    /\ hres' = o.hres
    /\ header' = IF o.hres.tag = "Ok" THEN o.hres.val ELSE header
    /\ ires' = o.ires
    /\ found' = o.found
    /\ pc' = "done"

(* find_tz_data_android(&mut file, tz_name) *)
CallAndroid ==
    /\ pc = "start"
    /\ Returned(find_tz_data_android(file, pos, tz_name))
    /\ variant' = "android"
    /\ stride' = SIZEOF_INDEX_ENTRY_ANDROID
    /\ UNCHANGED <<input, file, tz_name, dres, loc>>

(* find_tz_data_ohos(&mut file, tz_name) *)
CallOhos ==
    /\ pc = "start"
    /\ Returned(find_tz_data_ohos(file, pos, tz_name))
    /\ variant' = "ohos"
    /\ stride' = SIZEOF_INDEX_ENTRY_OHOS
    /\ UNCHANGED <<input, file, tz_name, dres, loc>>

NextCompose == CallAndroid \/ CallOhos

SpecCompose == InitCompose /\ [][NextCompose]_vars

----------------------------------------------------------------------------
(* What the input says about the three places a composed lookup can fail *)

RegionLen ==
    IF input.data_offset > input.index_offset
    THEN input.data_offset - input.index_offset ELSE 0

HeaderReadable == input.kind = "good"

IndexReadable == 24 + RegionLen <= Len(file)

PayloadReadable ==
    \/ found.length = WZero
    \/ /\ Hi(found.offset) = 0 /\ Hi(found.length) = 0
       /\ input.data_offset + Lo(found.offset) + Lo(found.length) <= Len(file)

(* C7: when header decode and index decode succeed and the name is absent    *)
(* from the decoded table, the composed lookup returns Ok(None), not an      *)
(* error, and performs no seek or payload read; an error result comes only   *)
(* from header decode, the index read, or the payload seek/read.             *)
C7_AbsentIsNone ==
    pc = "done" =>
        /\ (hres.tag = "Ok" /\ ires.tag = "Ok"
              /\ \A i \in 1..Len(ires.val) : ires.val[i].name # tz_name) =>
              (res = OkNone /\ seeks = <<>> /\ pos = W(Lo(index_at) + RegionLen))
        /\ res.tag = "Err" =>
              \/ ~HeaderReadable
              \/ ~IndexReadable
              \/ (found.some /\ ~PayloadReadable)
        /\ res.tag = "Ok" => (HeaderReadable /\ IndexReadable)

C7_Witness ==
    /\ pc = "done"
    /\ hres.tag = "Ok" /\ ires.tag = "Ok"
    /\ Len(ires.val) = 2
    /\ tz_name = NameC
    /\ res = OkNone
    /\ seeks = <<>>

(* C10: in the composed lookups the bytes decoded as the index table are     *)
(* the file bytes [index_offset, data_offset): the index read starts at      *)
(* absolute position header.index_offset.                                    *)
C10_IndexReadAtIndexOffset ==
    (pc = "done" /\ hres.tag = "Ok") =>
        /\ index_at = header.index_offset
        /\ (ires.tag = "Ok" /\ seeks = <<>>) =>
              pos = W(input.index_offset + RegionLen)

----------------------------------------------------------------------------
(* find_tz_data_android_from_fs *)

(* the candidates in the opposite priority order *)
TZDATA_LOCATIONS_Reversed ==
    << [env_var |-> "ANDROID_ROOT", path |-> "/usr/share/zoneinfo"],
       [env_var |-> "ANDROID_DATA", path |-> "/misc/zoneinfo"] >>

TZDATA_LOCATIONS ==
    << [env_var |-> "ANDROID_DATA", path |-> "/misc/zoneinfo"],
       [env_var |-> "ANDROID_ROOT", path |-> "/usr/share/zoneinfo"] >>

(* format!("{}{}/tzdata", env_value, location.path) *)
format(env_value, path) == env_value \o path \o "/tzdata"

(* Inputs: the environment and the files at the candidate paths *)

FsRecord(kind) ==
    IF kind = "hasB"
    THEN [name |-> NameB, pad |-> "zero", offset |-> W(1), length |-> W(2),
          legacy |-> W(1)]
    ELSE [name |-> NameA, pad |-> "zero", offset |-> WZero, length |-> W(2),
          legacy |-> W(7)]

FsWhole(kind) ==
    HeaderBytes(IF kind = "badmagic" THEN "bad_first" ELSE "good", Version2021a,
                W(24), W(76), W(76 + PayloadLen))
        \o EncodeRecord(FsRecord(kind), "android") \o PayloadBytes(PayloadLen)

FsBytes(kind) ==
    IF kind = "truncated" THEN SubSeq(FsWhole(kind), 1, 10) ELSE FsWhole(kind)

FileKinds == {"missing", "hasA", "hasB", "badmagic", "truncated"}
DataPath == "/data/misc/zoneinfo/tzdata"
RootPath == "/system/usr/share/zoneinfo/tzdata"

InitFs ==
    /\ \E ed \in {"unset", "/data"}, er \in {"unset", "/system"},
          fd \in FileKinds, fr \in FileKinds, q \in {NameA, NameB} :
          /\ input = [env |-> [ANDROID_DATA |-> ed, ANDROID_ROOT |-> er],
                      fs |-> (DataPath :> fd) @@ (RootPath :> fr)]
          /\ tz_name = q
    /\ pc = "probing"
    /\ loc = 1
    /\ file = <<>>
    /\ pos = WZero
    /\ seeks = <<>>
    /\ index_at = WZero
    /\ header = NoHeader
    /\ variant = "none"
    /\ stride = 0
    /\ hres = NoRes
    /\ ires = NoRes
    /\ found = NoEntry
    /\ dres = NoRes
    /\ res = NoRes

(* File::open *)
open(path) ==
    IF path \in DOMAIN input.fs /\ input.fs[path] # "missing"
    THEN [ok |-> TRUE, bytes |-> FsBytes(input.fs[path])]
    ELSE [ok |-> FALSE, bytes |-> <<>>]

(* one iteration of the loop of open_android_tz_data_file *)
ProbeLocation ==
    /\ pc = "probing"
    /\ loc <= Len(TZDATA_LOCATIONS)
    /\ LET location == TZDATA_LOCATIONS[loc]
           env_value == input.env[location.env_var]
           opened == IF env_value # "unset"
                     THEN open(format(env_value, location.path))
                     ELSE [ok |-> FALSE, bytes |-> <<>>]
       IN IF opened.ok
          THEN /\ file' = opened.bytes
               /\ pc' = "opened"
               /\ loc' = loc
          ELSE /\ loc' = loc + 1
               /\ UNCHANGED <<file, pc>>
    /\ UNCHANGED <<input, pos, seeks, index_at, header, variant, stride, hres,
                   ires, tz_name, found, dres, res>>

(* the loop ended without a file: Err(ErrorKind::NotFound), propagated by ? *)
ProbeExhausted ==
    /\ pc = "probing"
    /\ loc > Len(TZDATA_LOCATIONS)
    /\ res' = Err("NotFound")
    /\ pc' = "done"
    /\ UNCHANGED <<input, file, pos, seeks, index_at, header, variant, stride,
                   hres, ires, tz_name, found, dres, loc>>

(* find_tz_data_android(&mut file, tz_string.as_bytes()) *)
ParseOpened ==
    /\ pc = "opened"
    /\ Returned(find_tz_data_android(file, pos, tz_name))
    /\ variant' = "android"
    /\ stride' = SIZEOF_INDEX_ENTRY_ANDROID
    /\ UNCHANGED <<input, file, tz_name, dres, loc>>

NextFs == ProbeLocation \/ ProbeExhausted \/ ParseOpened

SpecFs == InitFs /\ [][NextFs]_vars

(* what parsing a file of a kind returns for a name *)
ParseOf(kind, q) ==
    CASE kind = "badmagic" -> Err("Other")
      [] kind = "truncated" -> Err("UnexpectedEof")
      [] kind = "hasA" -> IF q = NameA THEN OkSome(<<201, 202>>) ELSE OkNone
      [] OTHER -> IF q = NameB THEN OkSome(<<202, 203>>) ELSE OkNone

DataOpens == input.env.ANDROID_DATA = "/data" /\ input.fs[DataPath] # "missing"
RootOpens == input.env.ANDROID_ROOT = "/system" /\ input.fs[RootPath] # "missing"

(* C8: the candidates (ANDROID_DATA, /misc/zoneinfo) then (ANDROID_ROOT,     *)
(* /usr/share/zoneinfo) are probed in that order and the first file that     *)
(* opens is parsed; the IO not-found error is returned only if no candidate  *)
(* opens; once a file is open its parse result, failures included, is        *)
(* returned and no later candidate is tried.                                 *)
C8_ProbeOrder ==
    /\ pc = "opened" =>
          /\ loc = (IF DataOpens THEN 1 ELSE 2)
          /\ file = FsBytes(IF DataOpens THEN input.fs[DataPath]
                            ELSE input.fs[RootPath])
    /\ pc = "done" =>
          /\ DataOpens => (res = ParseOf(input.fs[DataPath], tz_name) /\ loc = 1)
          /\ (~DataOpens /\ RootOpens) =>
                (res = ParseOf(input.fs[RootPath], tz_name) /\ loc = 2)
          /\ (~DataOpens /\ ~RootOpens) => res = Err("NotFound")
          /\ res = Err("NotFound") => (~DataOpens /\ ~RootOpens)

C8_Witness ==
    /\ pc = "done"
    /\ DataOpens /\ RootOpens
    /\ input.fs[DataPath] = "badmagic"
    /\ input.fs[RootPath] = "hasA"
    /\ tz_name = NameA
    /\ res = Err("Other")
    /\ loc = 1

====
